---- MODULE Spec2Model ----
(***************************************************************************)
(* Lexer (lexer.py) and recursive-descent parser (parser.py) of the        *)
(* S-expression language, as one state machine.  A character is a string   *)
(* of length one; the text, a lexeme and a buffer are sequences of         *)
(* characters.  The lexer runs one character per step, the parser one      *)
(* code segment between two calls per step, on an explicit call stack.     *)
(***************************************************************************)
EXTENDS Integers, Sequences, FiniteSets, TLC

VARIABLES
    text, pos, line, column,                      \* Lexer fields
    lpc, start_line, start_col, start_pos, buf,   \* activation of next_token
    tok,                                          \* value returned by next_token
    driver, tokens,                               \* entry point; tokenize()'s list
    lookahead, stack,                      \* Parser
    outcome, error, tree                          \* what the caller receives

vars == <<text, pos, line, column, lpc, start_line, start_col, start_pos, buf,
          tok, driver, tokens, lookahead, stack, outcome, error, tree>>

lexLocals == <<start_line, start_col, start_pos, buf>>
cursorVars == <<pos, line, column>>
parserVars == <<lookahead, stack, tree>>

----------------------------------------------------------------------------
(* Characters *)

\* The character U+0000, which peek() also returns as its end-of-input sentinel.
NUL == "NUL"
NL == "\n"
QUOTE == "\""

Digit == {"0", "1", "2", "3", "4", "5", "6", "7", "8", "9"}

Alpha == {"a", "b", "c", "d", "e", "f", "g", "h", "i", "j", "k", "l", "m",
          "n", "o", "p", "q", "r", "s", "t", "u", "v", "w", "x", "y", "z",
          "A", "Z"}

IsDigit(c) == c \in Digit

IsIdentStart(c) == c \in Alpha \/ c = "_"

IsIdentPart(c) == c \in Alpha \/ c \in Digit \/ c = "_"

IsWhitespaceNoTab(c) == c \in {" ", "\r", NL}

IsWhitespace(c) == c \in {" ", "\t", "\r", NL}

CommentStops(c) == c \in {NL, NUL}

PunctChars == {"(", ")", "+", "-", "*", "/", "=", "<", ">"}

PunctType(c) ==
    CASE c = "(" -> "LPAREN"
      [] c = ")" -> "RPAREN"
      [] c = "+" -> "PLUS"
      [] c = "-" -> "MINUS"
      [] c = "*" -> "STAR"
      [] c = "/" -> "SLASH"
      [] c = "=" -> "EQ"
      [] c = "<" -> "LT"
      [] c = ">" -> "GT"

----------------------------------------------------------------------------
(* Words *)

W_if == <<"i", "f">>
W_do == <<"d", "o">>
W_def == <<"d", "e", "f">>
W_defn == <<"d", "e", "f", "n">>
W_let == <<"l", "e", "t">>
W_print == <<"p", "r", "i", "n", "t">>
W_str == <<"s", "t", "r">>
W_list == <<"l", "i", "s", "t">>
W_nth == <<"n", "t", "h">>
W_head == <<"h", "e", "a", "d">>
W_tail == <<"t", "a", "i", "l">>
W_true == <<"t", "r", "u", "e">>
W_false == <<"f", "a", "l", "s", "e">>

EOFLexeme == <<"<", "E", "O", "F", ">">>

KeywordTypeNoDefn(t) ==
    IF t = W_if THEN "IF"
    ELSE IF t = W_do THEN "DO"
    ELSE IF t = W_def THEN "DEF"
    ELSE IF t = W_let THEN "LET"
    ELSE IF t = W_print THEN "PRINT"
    ELSE IF t = W_str THEN "STRFN"
    ELSE IF t = W_list THEN "LISTFN"
    ELSE IF t = W_nth THEN "NTH"
    ELSE IF t = W_head THEN "HEAD"
    ELSE IF t = W_tail THEN "TAIL"
    ELSE IF t = W_true \/ t = W_false THEN "BOOL"
    ELSE "IDENT"

KeywordType(t) ==
    IF t = W_if THEN "IF"
    ELSE IF t = W_do THEN "DO"
    ELSE IF t = W_def THEN "DEF"
    ELSE IF t = W_defn THEN "DEFN"
    ELSE IF t = W_let THEN "LET"
    ELSE IF t = W_print THEN "PRINT"
    ELSE IF t = W_str THEN "STRFN"
    ELSE IF t = W_list THEN "LISTFN"
    ELSE IF t = W_nth THEN "NTH"
    ELSE IF t = W_head THEN "HEAD"
    ELSE IF t = W_tail THEN "TAIL"
    ELSE IF t = W_true \/ t = W_false THEN "BOOL"
    ELSE "IDENT"

----------------------------------------------------------------------------
(* Tokens, errors, cursor *)

Token(type, lexeme, l, c) ==
    [type |-> type, lexeme |-> lexeme, line |-> l, column |-> c]

NoToken == Token("NONE", <<>>, 0, 0)

NoError == [msg |-> "", expected |-> "", ch |-> "", token |-> NoToken,
            line |-> 0, column |-> 0]

Peek(t, p) == IF p >= Len(t) THEN NUL ELSE t[p + 1]

PeekNext(t, p) == IF p + 1 >= Len(t) THEN NUL ELSE t[p + 2]

Cursor == [pos |-> pos, line |-> line, column |-> column]

ConsumeKeepsLast(t, cur) ==
    IF cur.pos + 1 >= Len(t) THEN cur
    ELSE IF t[cur.pos + 1] = NL
         THEN [pos |-> cur.pos + 1, line |-> cur.line + 1, column |-> 1]
         ELSE [pos |-> cur.pos + 1, line |-> cur.line, column |-> cur.column + 1]

Consume(t, cur) ==
    IF cur.pos >= Len(t) THEN cur
    ELSE IF t[cur.pos + 1] = NL
         THEN [pos |-> cur.pos + 1, line |-> cur.line + 1, column |-> 1]
         ELSE [pos |-> cur.pos + 1, line |-> cur.line, column |-> cur.column + 1]

SetCursor(cur) ==
    /\ pos' = cur.pos
    /\ line' = cur.line
    /\ column' = cur.column

UnexpectedCharError(c, l, col) ==
    [msg |-> "Unerwartetes Zeichen", expected |-> "", ch |-> c,
     token |-> NoToken, line |-> l, column |-> col]

UnterminatedAtCursor(sl, sc, l, col) ==
    [msg |-> "String nicht abgeschlossen", expected |-> QUOTE, ch |-> "",
     token |-> NoToken, line |-> l, column |-> col]

UnterminatedError(sl, sc, l, col) ==
    [msg |-> "String nicht abgeschlossen", expected |-> QUOTE, ch |-> "",
     token |-> NoToken, line |-> sl, column |-> sc]

----------------------------------------------------------------------------
(* Lexer.next_token, one character per step *)

Running == outcome = "running"

\* The skip loop's break: neither whitespace nor the start of a comment.
SkipOver ==
    /\ lpc = "skip"
    /\ ~IsWhitespace(Peek(text, pos))
    /\ ~(Peek(text, pos) = ";" /\ PeekNext(text, pos) = ";")

CaptureStart ==
    /\ start_line' = line
    /\ start_col' = column
    /\ start_pos' = pos

LexerRaise(err) ==
    /\ outcome' = "LexerError"
    /\ error' = err
    /\ lpc' = "idle"
    /\ stack' = <<>>
    /\ UNCHANGED <<text, tok, driver, tokens, lookahead, tree>>

LexerKeeps == UNCHANGED <<text, driver, tokens, outcome, error, parserVars>>

SkipWhitespace ==
    /\ Running /\ lpc = "skip"
    /\ IsWhitespace(Peek(text, pos))
    /\ SetCursor(Consume(text, Cursor))
    /\ UNCHANGED <<lpc, lexLocals, tok>>
    /\ LexerKeeps

SkipCommentOpen ==
    /\ Running /\ lpc = "skip"
    /\ Peek(text, pos) = ";" /\ PeekNext(text, pos) = ";"
    /\ SetCursor(Consume(text, Consume(text, Cursor)))
    /\ lpc' = "comment"
    /\ UNCHANGED <<lexLocals, tok>>
    /\ LexerKeeps

SkipCommentBody ==
    /\ Running /\ lpc = "comment"
    /\ IF CommentStops(Peek(text, pos))
       THEN lpc' = "skip" /\ UNCHANGED cursorVars
       ELSE lpc' = lpc /\ SetCursor(Consume(text, Cursor))
    /\ UNCHANGED <<lexLocals, tok>>
    /\ LexerKeeps

LexEOF ==
    /\ Running /\ SkipOver
    /\ Peek(text, pos) = NUL
    /\ CaptureStart
    /\ tok' = Token("EOF", EOFLexeme, line, column)
    /\ lpc' = "ret"
    /\ UNCHANGED <<cursorVars, buf>>
    /\ LexerKeeps

LexPunct ==
    /\ Running /\ SkipOver
    /\ Peek(text, pos) \in PunctChars
    /\ CaptureStart
    /\ SetCursor(Consume(text, Cursor))
    /\ tok' = Token(PunctType(Peek(text, pos)), <<Peek(text, pos)>>, line, column)
    /\ lpc' = "ret"
    /\ UNCHANGED buf
    /\ LexerKeeps

NumberToken ==
    /\ Running
    /\ \/ /\ SkipOver
          /\ IsDigit(Peek(text, pos))
          /\ CaptureStart
          /\ buf' = <<>>
          /\ lpc' = "number"
          /\ UNCHANGED <<cursorVars, tok>>
       \/ /\ lpc = "number"
          /\ IF IsDigit(Peek(text, pos))
             THEN /\ buf' = Append(buf, Peek(text, pos))
                  /\ SetCursor(Consume(text, Cursor))
                  /\ UNCHANGED <<lpc, tok>>
             ELSE /\ tok' = Token("INT", buf, start_line, start_col)
                  /\ lpc' = "ret"
                  /\ UNCHANGED <<cursorVars, buf>>
          /\ UNCHANGED <<start_line, start_col, start_pos>>
    /\ LexerKeeps

StringToken ==
    /\ Running
    /\ \/ /\ SkipOver
          /\ Peek(text, pos) = QUOTE
          /\ CaptureStart
          /\ buf' = <<>>
          /\ SetCursor(Consume(text, Cursor))
          /\ lpc' = "string"
          /\ UNCHANGED tok
       \/ /\ lpc = "string"
          /\ Peek(text, pos) # NUL
          /\ IF Peek(text, pos) = QUOTE
             THEN /\ tok' = Token("STRING", buf, start_line, start_col)
                  /\ lpc' = "ret"
                  /\ UNCHANGED buf
             ELSE /\ buf' = Append(buf, Peek(text, pos))
                  /\ UNCHANGED <<lpc, tok>>
          /\ SetCursor(Consume(text, Cursor))
          /\ UNCHANGED <<start_line, start_col, start_pos>>
    /\ LexerKeeps

StringUnterminated ==
    /\ Running /\ lpc = "string"
    /\ Peek(text, pos) = NUL
    /\ LexerRaise(UnterminatedError(start_line, start_col, line, column))
    /\ UNCHANGED <<cursorVars, lexLocals>>

IdentOrKeyword ==
    /\ Running
    /\ \/ /\ SkipOver
          /\ IsIdentStart(Peek(text, pos))
          /\ CaptureStart
          /\ buf' = <<Peek(text, pos)>>
          /\ SetCursor(Consume(text, Cursor))
          /\ lpc' = "ident"
          /\ UNCHANGED tok
       \/ /\ lpc = "ident"
          /\ IF IsIdentPart(Peek(text, pos))
             THEN /\ buf' = Append(buf, Peek(text, pos))
                  /\ SetCursor(Consume(text, Cursor))
                  /\ UNCHANGED <<lpc, tok>>
             ELSE /\ tok' = Token(KeywordType(buf), buf, start_line, start_col)
                  /\ lpc' = "ret"
                  /\ UNCHANGED <<cursorVars, buf>>
          /\ UNCHANGED <<start_line, start_col, start_pos>>
    /\ LexerKeeps

LexUnexpected ==
    /\ Running /\ SkipOver
    /\ LET c == Peek(text, pos) IN
       /\ c # NUL
       /\ c \notin PunctChars
       /\ ~IsDigit(c)
       /\ c # QUOTE
       /\ ~IsIdentStart(c)
       /\ LexerRaise(UnexpectedCharError(c, line, column))
    /\ CaptureStart
    /\ UNCHANGED <<cursorVars, buf>>

----------------------------------------------------------------------------
(* Lexer.tokenize *)

TokenizeStops(t) == t.type = "EOF"

Tokenize ==
    /\ Running /\ driver = "tokenize" /\ lpc = "ret"
    /\ tokens' = Append(tokens, tok)
    /\ IF TokenizeStops(tok)
       THEN outcome' = "returned" /\ lpc' = "idle"
       ELSE outcome' = outcome /\ lpc' = "skip"
    /\ UNCHANGED <<text, cursorVars, lexLocals, tok, driver, error, parserVars>>

----------------------------------------------------------------------------
(* AST nodes.  value is <<>> for None and <<lexeme>> otherwise. *)

Node(kind, value, children) ==
    [kind |-> kind, value |-> value, children |-> children]

AtomKind(type) ==
    CASE type = "INT" -> "IntLiteral"
      [] type = "STRING" -> "StringLiteral"
      [] type = "BOOL" -> "BoolLiteral"
      [] type = "IDENT" -> "Identifier"

AtomTypes == {"INT", "STRING", "BOOL", "IDENT"}

OperatorTypes == {"PLUS", "MINUS", "STAR", "SLASH", "EQ", "LT", "GT",
                  "PRINT", "STRFN", "LISTFN", "NTH", "HEAD", "TAIL", "IDENT"}

ListNode(inside) == Node("ListExpr", <<>>, <<inside>>)

IfNode(branches) == Node("IfExpr", <<>>, branches)

DoNode(exprs) == Node("DoExpr", <<>>, exprs)

DefNode(name, value) == Node("DefExpr", <<name>>, <<value>>)

DefnNodeFlat(name, params, body) ==
    Node("DefnExpr", <<name>>, Append(params, body))

DefnNode(name, params, body) ==
    Node("DefnExpr", <<name>>, <<Node("ParamList", <<>>, params), body>>)

LetNode(bindings, body) ==
    Node("LetExpr", <<>>, <<Node("LetBindings", <<>>, bindings), body>>)

AppNode(op, args) == Node("AppExpr", <<op.lexeme>>, args)

----------------------------------------------------------------------------
(* Parser: the decisions of the grammar rules *)

MatchAccepts(la, expected) == la.type = expected

IfHasElse(la) == la.type # "RPAREN"

DoBodyNeverMissing(la) == FALSE

DoBodyMissing(la) == la.type = "RPAREN"

DoEnds(la) == la.type \in {"RPAREN", "EOF"}

ArgsEndAtParenOnly(la) == la.type = "RPAREN"

ArgsEnd(la) == la.type \in {"RPAREN", "EOF"}

ParamFollows(la) == la.type = "IDENT"

BindingFollows(la) == la.type = "IDENT"

----------------------------------------------------------------------------
(* Parser: call stack *)

Frame(fn) ==
    [fn |-> fn, pc |-> 0, kids |-> <<>>, aux |-> <<>>, name |-> <<>>,
     expected |-> "", tok |-> NoToken, ret |-> <<>>, rtok |-> NoToken,
     mark |-> 0]

MatchFrame(expected) == [Frame("match") EXCEPT !.expected = expected]

Top == stack[Len(stack)]

At(fn) == stack # <<>> /\ Top.fn = fn

WithTop(f) == [stack EXCEPT ![Len(stack)] = f]

\* The caller continues as f once g has returned.
CallFrom(f, g) == Append(WithTop(f), g)

ReturnNode(n) ==
    [SubSeq(stack, 1, Len(stack) - 1) EXCEPT ![Len(stack) - 1].ret = <<n>>]

ReturnToken(t) ==
    [SubSeq(stack, 1, Len(stack) - 1) EXCEPT ![Len(stack) - 1].rtok = t]

ParserReady == Running /\ driver = "parse" /\ lpc = "idle"

lexerVars == <<text, cursorVars, lexLocals, tok, driver, tokens>>

\* A step that stays inside the parser.
Goto(newStack) ==
    /\ stack' = newStack
    /\ UNCHANGED <<lexerVars, lpc, lookahead, outcome, error, tree>>

\* Parser.consume: the step ends in the call of lexer.next_token().
Pull(newStack) ==
    /\ stack' = newStack
    /\ lpc' = "skip"
    /\ UNCHANGED <<lexerVars, lookahead, outcome, error, tree>>

SyntaxError(msg, expected, token) ==
    [msg |-> msg, expected |-> expected, ch |-> "", token |-> token,
     line |-> token.line, column |-> token.column]

\* Parser.error
ParserRaise(msg, expected, token) ==
    /\ outcome' = "ParserError"
    /\ error' = SyntaxError(msg, expected, token)
    /\ stack' = <<>>
    /\ UNCHANGED <<lexerVars, lpc, lookahead, tree>>

\* self.lookahead = self.lexer.next_token()
ParserReceive ==
    /\ Running /\ driver = "parse" /\ lpc = "ret"
    /\ lookahead' = tok
    /\ lpc' = "idle"
    /\ UNCHANGED <<lexerVars, stack, outcome, error, tree>>

Match ==
    /\ ParserReady /\ At("match")
    /\ IF Top.pc = 0
       THEN IF MatchAccepts(lookahead, Top.expected)
            THEN Pull(WithTop([Top EXCEPT !.pc = 1, !.tok = lookahead]))
            ELSE ParserRaise("erwartet", Top.expected, lookahead)
       ELSE Goto(ReturnToken(Top.tok))

Parse ==
    /\ ParserReady
    /\ \/ /\ stack = <<>>
          /\ lookahead # NoToken
          /\ Goto(<<Frame("parse")>>)
       \/ /\ At("parse") /\ Top.pc = 0
          /\ lookahead.type # "EOF"
          /\ Goto(CallFrom([Top EXCEPT !.pc = 1, !.mark = start_pos], Frame("expr")))
       \/ /\ At("parse") /\ Top.pc = 1
          /\ Goto(WithTop([Top EXCEPT !.pc = 0, !.ret = <<>>,
                                      !.kids = Append(@, Top.ret[1])]))
       \/ /\ At("parse") /\ Top.pc = 0
          /\ lookahead.type = "EOF"
          /\ outcome' = "returned"
          /\ tree' = <<Node("Program", <<>>, Top.kids)>>
          /\ stack' = <<>>
          /\ UNCHANGED <<lexerVars, lpc, lookahead, error>>

ParseExpr ==
    /\ ParserReady /\ At("expr")
    /\ IF lookahead.type \in AtomTypes
       THEN Goto(WithTop(Frame("atom")))
       ELSE IF lookahead.type = "LPAREN"
       THEN Goto(WithTop(Frame("list")))
       ELSE ParserRaise("Ausdruck erwartet", "", lookahead)

ParseAtom ==
    /\ ParserReady /\ At("atom")
    /\ IF Top.pc = 0
       THEN IF lookahead.type \in AtomTypes
            THEN Pull(WithTop([Top EXCEPT !.pc = 1, !.tok = lookahead]))
            ELSE ParserRaise("Atom erwartet", "", lookahead)
       ELSE Goto(ReturnNode(Node(AtomKind(Top.tok.type), <<Top.tok.lexeme>>, <<>>)))

ParseListExpr ==
    /\ ParserReady /\ At("list")
    /\ CASE Top.pc = 0 ->
              Goto(CallFrom([Top EXCEPT !.pc = 1], MatchFrame("LPAREN")))
         [] Top.pc = 1 ->
              Goto(CallFrom([Top EXCEPT !.pc = 2], Frame("form")))
         [] Top.pc = 2 ->
              Goto(CallFrom([Top EXCEPT !.pc = 3, !.kids = Top.ret, !.ret = <<>>],
                            MatchFrame("RPAREN")))
         [] Top.pc = 3 ->
              Goto(ReturnNode(ListNode(Top.kids[1])))

ParseForm ==
    /\ ParserReady /\ At("form")
    /\ Goto(WithTop(Frame(
           CASE lookahead.type = "IF" -> "if"
             [] lookahead.type = "DO" -> "do"
             [] lookahead.type = "DEF" -> "def"
             [] lookahead.type = "DEFN" -> "defn"
             [] lookahead.type = "LET" -> "let"
             [] OTHER -> "app")))

ParseIfExpr ==
    /\ ParserReady /\ At("if")
    /\ CASE Top.pc = 0 ->
              Goto(CallFrom([Top EXCEPT !.pc = 1], MatchFrame("IF")))
         [] Top.pc = 1 ->
              Goto(CallFrom([Top EXCEPT !.pc = 2], Frame("expr")))
         [] Top.pc = 2 ->
              Goto(CallFrom([Top EXCEPT !.pc = 3, !.kids = Top.ret, !.ret = <<>>],
                            Frame("expr")))
         [] Top.pc = 3 ->
              IF IfHasElse(lookahead)
              THEN Goto(CallFrom([Top EXCEPT !.pc = 4, !.ret = <<>>,
                                             !.kids = Append(@, Top.ret[1])],
                                 Frame("expr")))
              ELSE Goto(ReturnNode(IfNode(Append(Top.kids, Top.ret[1]))))
         [] Top.pc = 4 ->
              Goto(ReturnNode(IfNode(Append(Top.kids, Top.ret[1]))))

ParseDoExpr ==
    /\ ParserReady /\ At("do")
    /\ CASE Top.pc = 0 ->
              Goto(CallFrom([Top EXCEPT !.pc = 1], MatchFrame("DO")))
         [] Top.pc = 1 ->
              IF DoBodyMissing(lookahead)
              THEN ParserRaise("mindestens einen Ausdruck erwartet", "", lookahead)
              ELSE Goto(WithTop([Top EXCEPT !.pc = 2]))
         [] Top.pc = 2 ->
              IF ~DoEnds(lookahead)
              THEN Goto(CallFrom([Top EXCEPT !.pc = 3, !.mark = start_pos],
                                 Frame("expr")))
              ELSE Goto(ReturnNode(DoNode(Top.kids)))
         [] Top.pc = 3 ->
              Goto(WithTop([Top EXCEPT !.pc = 2, !.ret = <<>>,
                                       !.kids = Append(@, Top.ret[1])]))

ParseDefExpr ==
    /\ ParserReady /\ At("def")
    /\ CASE Top.pc = 0 ->
              Goto(CallFrom([Top EXCEPT !.pc = 1], MatchFrame("DEF")))
         [] Top.pc = 1 ->
              Goto(CallFrom([Top EXCEPT !.pc = 2], MatchFrame("IDENT")))
         [] Top.pc = 2 ->
              Goto(CallFrom([Top EXCEPT !.pc = 3, !.name = Top.rtok.lexeme],
                            Frame("expr")))
         [] Top.pc = 3 ->
              Goto(ReturnNode(DefNode(Top.name, Top.ret[1])))

ParseDefnExpr ==
    /\ ParserReady /\ At("defn")
    /\ CASE Top.pc = 0 ->
              Goto(CallFrom([Top EXCEPT !.pc = 1], MatchFrame("DEFN")))
         [] Top.pc = 1 ->
              Goto(CallFrom([Top EXCEPT !.pc = 2], MatchFrame("IDENT")))
         [] Top.pc = 2 ->
              Goto(CallFrom([Top EXCEPT !.pc = 3, !.name = Top.rtok.lexeme],
                            MatchFrame("LPAREN")))
         [] Top.pc = 3 ->
              IF ParamFollows(lookahead)
              THEN Pull(WithTop([Top EXCEPT !.mark = start_pos,
                        !.aux = Append(@, Node("Param", <<lookahead.lexeme>>, <<>>))]))
              ELSE Goto(CallFrom([Top EXCEPT !.pc = 4], MatchFrame("RPAREN")))
         [] Top.pc = 4 ->
              Goto(CallFrom([Top EXCEPT !.pc = 5], Frame("expr")))
         [] Top.pc = 5 ->
              Goto(ReturnNode(DefnNode(Top.name, Top.aux, Top.ret[1])))

ParseLetExpr ==
    /\ ParserReady /\ At("let")
    /\ CASE Top.pc = 0 ->
              Goto(CallFrom([Top EXCEPT !.pc = 1], MatchFrame("LET")))
         [] Top.pc = 1 ->
              Goto(CallFrom([Top EXCEPT !.pc = 2], MatchFrame("LPAREN")))
         [] Top.pc = 2 ->
              IF BindingFollows(lookahead)
              THEN Pull(WithTop([Top EXCEPT !.pc = 3, !.mark = start_pos,
                                            !.name = lookahead.lexeme]))
              ELSE Goto(CallFrom([Top EXCEPT !.pc = 5], MatchFrame("RPAREN")))
         [] Top.pc = 3 ->
              Goto(CallFrom([Top EXCEPT !.pc = 4], Frame("expr")))
         [] Top.pc = 4 ->
              Goto(WithTop([Top EXCEPT !.pc = 2, !.ret = <<>>,
                        !.aux = Append(@, Node("LetBinding", <<Top.name>>, Top.ret))]))
         [] Top.pc = 5 ->
              Goto(CallFrom([Top EXCEPT !.pc = 6], Frame("expr")))
         [] Top.pc = 6 ->
              Goto(ReturnNode(LetNode(Top.aux, Top.ret[1])))

ParseAppExpr ==
    /\ ParserReady /\ At("app")
    /\ CASE Top.pc = 0 ->
              IF lookahead.type \notin OperatorTypes
              THEN ParserRaise("Operator oder Funktionsname erwartet", "", lookahead)
              ELSE Pull(WithTop([Top EXCEPT !.pc = 1, !.tok = lookahead]))
         [] Top.pc = 1 ->
              IF ~ArgsEnd(lookahead)
              THEN Goto(CallFrom([Top EXCEPT !.pc = 2, !.mark = start_pos],
                                 Frame("expr")))
              ELSE Goto(ReturnNode(AppNode(Top.tok, Top.kids)))
         [] Top.pc = 2 ->
              Goto(WithTop([Top EXCEPT !.pc = 1, !.ret = <<>>,
                                       !.kids = Append(@, Top.ret[1])]))

----------------------------------------------------------------------------
(* Input texts *)

RECURSIVE Flatten(_)
Flatten(ps) == IF ps = <<>> THEN <<>> ELSE Head(ps) \o Flatten(Tail(ps))

MaxLen == 3

FreeChars == {"(", ")", "a", "1", QUOTE, " ", NL, ";", "@", NUL}

\* Every text of at most MaxLen characters of FreeChars.
FreeTexts == UNION {[1..n -> FreeChars] : n \in 0..MaxLen}

SP == <<" ">>
LP == <<"(">>
RP == <<")">>

\* Well-formed programs, one per grammar rule, as sequences of pieces.
Skeletons == {
    \* (if (< n 1) a b)
    <<LP, W_if, SP, LP, <<"<">>, SP, <<"n">>, SP, <<"1">>, RP, SP, <<"a">>, SP, <<"b">>, RP>>,
    \* (do a b)
    <<LP, W_do, SP, <<"a">>, SP, <<"b">>, RP>>,
    \* (def x 1)
    <<LP, W_def, SP, <<"x">>, SP, <<"1">>, RP>>,
    \* (defn f (x y) 1)
    <<LP, W_defn, SP, <<"f">>, SP, LP, <<"x">>, SP, <<"y">>, RP, SP, <<"1">>, RP>>,
    \* (let (x 1 y 2) x)
    <<LP, W_let, SP, LP, <<"x">>, SP, <<"1">>, SP, <<"y">>, SP, <<"2">>, RP, SP, <<"x">>, RP>>,
    \* (+ 1 (f "s"))
    <<LP, <<"+">>, SP, <<"1">>, SP, LP, <<"f">>, SP, <<QUOTE, "s", QUOTE>>, RP, RP>> }

EditPieces == {LP, RP, SP, <<NL>>, <<"a">>, <<"@">>, <<QUOTE>>, <<NUL>>,
               <<";", ";">>, W_do}

\* A skeleton cut short, with one piece left out, or with one piece put in.
Edits(sk) ==
    {Flatten(SubSeq(sk, 1, k)) : k \in 0..Len(sk)}
    \cup {Flatten(SubSeq(sk, 1, i - 1) \o SubSeq(sk, i + 1, Len(sk))) : i \in 1..Len(sk)}
    \cup {Flatten(SubSeq(sk, 1, i) \o <<p>> \o SubSeq(sk, i + 1, Len(sk))) :
              i \in 0..Len(sk), p \in EditPieces}

EditedPrograms == UNION {Edits(sk) : sk \in Skeletons}

ReservedWords == {W_if, W_do, W_def, W_defn, W_let, W_print, W_str, W_list,
                  W_nth, W_head, W_tail}

BoolWords == {W_true, W_false}

WordPads == {<<>>, <<"\t", "\r">>, LP, <<";", ";", "c", NL>>}

WordEnds == {<<>>, <<NL>>, RP, <<NUL>>}

WordTails == {<<>>, <<"1">>, <<"_">>, <<"f", "y">>}

\* A word, possibly extended by identifier characters, between two pads.
WordTexts ==
    {pre \o w \o ext \o post :
        pre \in WordPads, post \in WordEnds, ext \in WordTails,
        w \in ReservedWords \cup BoolWords \cup {<<"x">>, <<"_">>, <<"d", "e">>}}

CompleteArgs == {<<>>, <<" ", "1", " ", "2">>, <<" ", "a", " ", "(", "f", " ", "2", ")">>,
                 <<"(", "g", ")">>, <<" ", QUOTE, "s", QUOTE>>}

OperatorWords == {<<"+">>, <<"<">>, <<"f">>, W_print}

EndPads == {<<>>, <<NL>>, <<NL, " ", ";", ";", "c">>}

\* '(' operator expr* with no closing paren.
OpenApps == {LP \o op \o args : op \in OperatorWords, args \in CompleteArgs}

\* Input that ends inside one or two applications.
UnclosedApps ==
    {u \o e : u \in OpenApps, e \in EndPads}
    \cup {u \o SP \o LP \o op \o e :
              u \in OpenApps, op \in {<<"f">>, <<"+", " ", "2">>}, e \in EndPads}

\* (if a)   (if a b c d)   (def x)   (let (x) 1)
BadShapes == {
    Flatten(<<LP, W_if, SP, <<"a">>, RP>>),
    Flatten(<<LP, W_if, SP, <<"a">>, SP, <<"b">>, SP, <<"c">>, SP, <<"d">>, RP>>),
    Flatten(<<LP, W_def, SP, <<"x">>, RP>>),
    Flatten(<<LP, W_let, SP, LP, <<"x">>, RP, SP, <<"1">>, RP>>) }

\* (if a b)   (do)   (do   (defn f () 1)   (let () 1)   (if (< n 10) (print 1) (print 2))
GoodShapes == {
    Flatten(<<LP, W_if, SP, <<"a">>, SP, <<"b">>, RP>>),
    Flatten(<<LP, W_do, RP>>),
    Flatten(<<LP, W_do>>),
    Flatten(<<LP, W_defn, SP, <<"f">>, SP, LP, RP, SP, <<"1">>, RP>>),
    Flatten(<<LP, W_let, SP, LP, RP, SP, <<"1">>, RP>>),
    Flatten(<<LP, W_if, SP, LP, <<"<">>, SP, <<"n">>, SP, <<"1", "0">>, RP, SP,
              LP, W_print, SP, <<"1">>, RP, SP, LP, W_print, SP, <<"2">>, RP, RP>>) }

\* Whitespace and ';;' comments only.
BlankSamples == {
    <<" ", "\t", "\r", NL>>,
    <<";", ";", "c">>,
    <<";", ";", " ", "c", ";", NL, " ", ";", ";", "(", "d">>,
    <<"\t", ";", ";", QUOTE, NL, NL>> }

\* (do with nothing after it but whitespace and comments.
DoAtEnd == {Flatten(<<LP, W_do>>) \o e : e \in EndPads}

\* A prefix on whose last token the grammar fails.
GrammarViolations == {
    RP,
    Flatten(<<LP, W_do, RP>>),
    <<"(", "1">>,
    Flatten(<<LP, W_def, SP, <<"1">>>>),
    Flatten(<<LP, W_if, SP, <<"a">>, RP>>) }

LexicalFaults == {<<"@">>, <<" ", ";", " ">>, <<NL, QUOTE, "a", NL, "b">>}

\* A prefix the grammar accepts so far.
ViablePrefixes == {<<>>, <<"a", " ">>, <<"(", "f", " ">>, Flatten(<<LP, W_def, SP>>)}

ViolationThenFault == {g \o f : g \in GrammarViolations, f \in LexicalFaults}

FaultThenViolation ==
    {v \o f \o g : v \in ViablePrefixes, f \in LexicalFaults, g \in {<<>>, RP, <<" ", ")", "(">>}}

NulThenViolation ==
    {v \o <<NUL>> \o g : v \in ViablePrefixes, g \in {<<>>, RP, <<" ", ")", "(">>}}

Inputs == FreeTexts \cup EditedPrograms \cup WordTexts \cup UnclosedApps
          \cup BadShapes \cup GoodShapes \cup BlankSamples \cup DoAtEnd
          \cup ViolationThenFault \cup FaultThenViolation \cup NulThenViolation

----------------------------------------------------------------------------
(* The state machine *)

Init ==
    /\ text \in Inputs
    /\ driver \in {"tokenize", "parse"}
    /\ pos = 0 /\ line = 1 /\ column = 1
    /\ lpc = "skip"
    /\ start_line = 0 /\ start_col = 0 /\ start_pos = 0
    /\ buf = <<>>
    /\ tok = NoToken
    /\ tokens = <<>>
    /\ lookahead = NoToken
    /\ stack = <<>>
    /\ outcome = "running"
    /\ error = NoError
    /\ tree = <<>>

Next ==
    \/ SkipWhitespace
    \/ SkipCommentOpen
    \/ SkipCommentBody
    \/ LexEOF
    \/ LexPunct
    \/ NumberToken
    \/ StringToken
    \/ StringUnterminated
    \/ IdentOrKeyword
    \/ LexUnexpected
    \/ Tokenize
    \/ ParserReceive
    \/ Match
    \/ Parse
    \/ ParseExpr
    \/ ParseAtom
    \/ ParseListExpr
    \/ ParseForm
    \/ ParseIfExpr
    \/ ParseDoExpr
    \/ ParseDefExpr
    \/ ParseDefnExpr
    \/ ParseLetExpr
    \/ ParseAppExpr

Spec == Init /\ [][Next]_vars

FairSpec == Spec /\ WF_vars(Next)

----------------------------------------------------------------------------
(* Properties *)

Terminal == outcome # "running"

Newlines(t, p) == {i \in 1..p : t[i] = NL}

\* Line and column of the character at offset p (0-based), counted on the text.
LineAt(t, p) == 1 + Cardinality(Newlines(t, p))

ColumnAt(t, p) ==
    IF Newlines(t, p) = {} THEN p + 1
    ELSE p + 1 - (CHOOSE i \in Newlines(t, p) : \A j \in Newlines(t, p) : j <= i)

\* Characters of the text a token covers.
Extent(t) ==
    CASE t.type = "EOF" -> 0
      [] t.type = "STRING" -> Len(t.lexeme) + 2
      [] OTHER -> Len(t.lexeme)

RECURSIVE WellFormed(_)
WellFormed(n) ==
    /\ CASE n.kind = "ListExpr" -> Len(n.children) = 1
         [] n.kind = "IfExpr" -> Len(n.children) \in {2, 3}
         [] n.kind = "DefExpr" -> Len(n.children) = 1 /\ n.value # <<>>
         [] n.kind = "DefnExpr" ->
              /\ Len(n.children) = 2
              /\ n.children[1].kind = "ParamList"
              /\ \A i \in 1..Len(n.children[1].children) :
                    n.children[1].children[i].kind = "Param"
              /\ n.children[2].kind \notin {"ParamList", "Param"}
         [] n.kind = "LetExpr" ->
              /\ Len(n.children) = 2
              /\ n.children[1].kind = "LetBindings"
              /\ \A i \in 1..Len(n.children[1].children) :
                    /\ n.children[1].children[i].kind = "LetBinding"
                    /\ Len(n.children[1].children[i].children) = 1
         [] OTHER -> TRUE
    /\ \A i \in 1..Len(n.children) : WellFormed(n.children[i])

RECURSIVE HasKind(_, _)
HasKind(n, kind) ==
    \/ n.kind = kind
    \/ \E i \in 1..Len(n.children) : HasKind(n.children[i], kind)

RECURSIVE HasEmptyDo(_)
HasEmptyDo(n) ==
    \/ n.kind = "DoExpr" /\ n.children = <<>>
    \/ \E i \in 1..Len(n.children) : HasEmptyDo(n.children[i])

\* C1: a tree returned by parse() is a Program whose ListExpr, IfExpr, DefExpr,
\* DefnExpr and LetExpr nodes have the child counts and child kinds of the data
\* model, and (if a), (if a b c d), (def x), (let (x) 1) end in a syntax error
\* with no tree.
C1_TreeShape ==
    /\ (driver = "parse" /\ outcome = "returned") =>
          /\ Len(tree) = 1
          /\ tree[1].kind = "Program"
          /\ WellFormed(tree[1])
    /\ (driver = "parse" /\ Terminal /\ text \in BadShapes) =>
          outcome = "ParserError" /\ tree = <<>>

C1_Witness ==
    /\ driver = "parse" /\ outcome = "returned"
    /\ HasKind(tree[1], "IfExpr") /\ HasKind(tree[1], "ListExpr")
    /\ \E i \in 1..Len(tree[1].children) :
          /\ tree[1].children[i].kind = "ListExpr"
          /\ tree[1].children[i].children[1].kind = "IfExpr"
          /\ Len(tree[1].children[i].children[1].children) = 3

\* Whether t from index i on holds only whitespace and ';;' comments.
RECURSIVE Blank(_, _, _)
Blank(t, i, inComment) ==
    IF i > Len(t) THEN TRUE
    ELSE IF inComment THEN Blank(t, i + 1, t[i] # NL)
    ELSE IF t[i] \in {" ", "\t", "\r", NL} THEN Blank(t, i + 1, FALSE)
    ELSE IF t[i] = ";" /\ i < Len(t) /\ t[i + 1] = ";" THEN Blank(t, i + 2, TRUE)
    ELSE FALSE

\* C2: when tokenize() raises no lexical error it returns a non-empty sequence
\* whose last token, and no other, is EOF with lexeme <EOF>; a text of
\* whitespace and ';;' comments only yields exactly that one token.
C2_TokenStream ==
    /\ (driver = "tokenize" /\ Terminal /\ outcome # "LexerError") =>
          /\ outcome = "returned"
          /\ tokens # <<>>
          /\ tokens[Len(tokens)].type = "EOF"
          /\ tokens[Len(tokens)].lexeme = EOFLexeme
          /\ \A i \in 1..(Len(tokens) - 1) : tokens[i].type # "EOF"
    /\ (driver = "tokenize" /\ Terminal /\ Blank(text, 1, FALSE)) =>
          outcome = "returned" /\ Len(tokens) = 1 /\ tokens[1].type = "EOF"

C2_Witness ==
    /\ driver = "tokenize" /\ outcome = "returned"
    /\ Len(tokens) = 1
    /\ Len(text) > 2 /\ text[1] = ";" /\ text[Len(text)] # NL

\* The token lies in the text at offset s.
LexemeAt(t, s) ==
    CASE t.type = "EOF" -> TRUE
      [] t.type = "STRING" ->
            /\ s + Len(t.lexeme) + 2 <= Len(text)
            /\ text[s + 1] = QUOTE
            /\ SubSeq(text, s + 2, s + 1 + Len(t.lexeme)) = t.lexeme
      [] OTHER ->
            /\ t.lexeme # <<>>
            /\ SubSeq(text, s + 1, s + Len(t.lexeme)) = t.lexeme

\* C3: a token returned by next_token() carries the line and column, counted on
\* the text, of the first character of its lexeme: the opening quote of a
\* String, the end of the input for EOF.
C3_TokenPosition ==
    lpc = "ret" =>
        LET s == IF tok.type = "EOF" THEN Len(text) ELSE start_pos IN
        /\ LexemeAt(tok, s)
        /\ tok.line = LineAt(text, s)
        /\ tok.column = ColumnAt(text, s)

\* The same with EOF placed where next_token() stopped scanning: holds, and
\* differs from C3 only on a text that holds the character NUL.
TokenPositionAtCursor ==
    lpc = "ret" =>
        /\ LexemeAt(tok, start_pos)
        /\ tok.line = LineAt(text, start_pos)
        /\ tok.column = ColumnAt(text, start_pos)
        /\ (tok.type = "EOF" /\ NUL \notin {text[i] : i \in 1..Len(text)}) =>
              start_pos = Len(text)

\* A character that starts no token.
StartsNoToken(c) ==
    /\ c \notin {"(", ")", "+", "-", "*", "/", "=", "<", ">"}
    /\ c \notin Digit
    /\ c # QUOTE
    /\ c \notin Alpha /\ c # "_"

RaisesUnexpected(c) ==
    /\ outcome' = "LexerError"
    /\ error'.msg = "Unerwartetes Zeichen"
    /\ error'.ch = c
    /\ error'.line = LineAt(text, pos)
    /\ error'.column = ColumnAt(text, pos)
    /\ tok' = tok /\ tokens' = tokens /\ lookahead' = lookahead

\* C4: when the skip phase ends before the end of the text on a character that
\* starts no token, next_token() raises a lexical error naming that character
\* and its position and returns no token, whatever the character.
C4_UnexpectedCharacter ==
    [][(Running /\ SkipOver /\ pos < Len(text) /\ StartsNoToken(text[pos + 1]))
          => RaisesUnexpected(text[pos + 1])]_vars

\* The same for every character but NUL: holds.
UnexpectedCharacterButNul ==
    [][(Running /\ SkipOver /\ pos < Len(text) /\ StartsNoToken(text[pos + 1])
          /\ text[pos + 1] # NUL)
          => RaisesUnexpected(text[pos + 1])]_vars

\* C5: when the input ends inside a string literal, next_token() raises a
\* lexical error at the line and column of the opening quote and returns no
\* String token.
C5_UnterminatedString ==
    [][(Running /\ lpc = "string" /\ pos >= Len(text)) =>
          /\ outcome' = "LexerError"
          /\ error'.msg = "String nicht abgeschlossen"
          /\ text[start_pos + 1] = QUOTE
          /\ \A i \in (start_pos + 2)..Len(text) : text[i] # QUOTE
          /\ error'.line = LineAt(text, start_pos)
          /\ error'.column = ColumnAt(text, start_pos)
          /\ tok' = tok /\ tokens' = tokens /\ lookahead' = lookahead]_vars

C5_Witness ==
    /\ outcome = "LexerError"
    /\ error.msg = "String nicht abgeschlossen"
    /\ line > error.line
    /\ error.column > 1
    /\ pos = Len(text)

\* C6: '(' operator expr* cut off by the end of the input, at one or two
\* levels of nesting, ends in the syntax error that expects RPAREN and found
\* the EOF token at the end of the input; no tree is returned.
C6_UnclosedApplication ==
    (driver = "parse" /\ Terminal /\ text \in UnclosedApps) =>
        /\ outcome = "ParserError"
        /\ error.msg = "erwartet" /\ error.expected = "RPAREN"
        /\ error.token.type = "EOF" /\ error.token.lexeme = EOFLexeme
        /\ error.token.line = LineAt(text, Len(text))
        /\ error.token.column = ColumnAt(text, Len(text))
        /\ error.line = error.token.line /\ error.column = error.token.column
        /\ tree = <<>>

C6_Witness ==
    /\ driver = "parse" /\ outcome = "ParserError"
    /\ text \in UnclosedApps
    /\ Cardinality({i \in 1..Len(text) : text[i] = "("}) = 2
    /\ Cardinality({i \in 1..Len(text) : text[i] = ")"}) = 0
    /\ error.token.line = 2

\* The frame of parse_do_expr right after match(DO).
AfterDo == ParserReady /\ At("do") /\ Top.pc = 1

\* C7: no returned tree holds a DoExpr without children: ')' right after 'do'
\* raises 'mindestens einen Ausdruck erwartet' on that ')', and with the end
\* of the input right after 'do' the match of ')' raises instead.
C7_NoEmptyDo ==
    /\ [](outcome = "returned" /\ driver = "parse" => ~HasEmptyDo(tree[1]))
    /\ [][(AfterDo /\ lookahead.type = "RPAREN") =>
             /\ outcome' = "ParserError"
             /\ error'.msg = "mindestens einen Ausdruck erwartet"
             /\ error'.token = lookahead /\ error'.token.lexeme = <<")">>
             /\ tree' = <<>>]_vars
    /\ [](driver = "parse" /\ Terminal /\ text \in DoAtEnd =>
             /\ outcome = "ParserError"
             /\ error.expected = "RPAREN" /\ error.token.type = "EOF"
             /\ tree = <<>>)

C7_Witness ==
    /\ outcome = "ParserError"
    /\ error.msg = "mindestens einen Ausdruck erwartet"
    /\ error.token.type = "RPAREN"

\* The zero-child DoExpr that parse_do_expr returns at the end of the input.
EmptyDoBuilt ==
    /\ At("list") /\ Top.ret # <<>>
    /\ Top.ret[1].kind = "DoExpr" /\ Top.ret[1].children = <<>>

KindOfWord == {
    <<W_if, "IF">>, <<W_do, "DO">>, <<W_def, "DEF">>, <<W_defn, "DEFN">>,
    <<W_let, "LET">>, <<W_print, "PRINT">>, <<W_str, "STRFN">>,
    <<W_list, "LISTFN">>, <<W_nth, "NTH">>, <<W_head, "HEAD">>,
    <<W_tail, "TAIL">>, <<W_true, "BOOL">>, <<W_false, "BOOL">> }

\* The maximal run of identifier characters of t from offset s.
RunFrom(t, s) ==
    LET ends == {k \in s..Len(t) :
                    /\ \A i \in (s + 1)..k : t[i] \in Alpha \cup Digit \cup {"_"}
                    /\ (k < Len(t) => t[k + 1] \notin Alpha \cup Digit \cup {"_"})}
    IN SubSeq(t, s + 1, CHOOSE k \in ends : TRUE)

\* C8: the token for a maximal run of identifier characters has the run as its
\* lexeme; its kind is the dedicated kind when the run is a reserved word,
\* BOOL when it is true or false, and IDENT for every other run.
C8_ReservedWords ==
    (lpc = "ret" /\ start_pos < Len(text)
        /\ (text[start_pos + 1] \in Alpha \/ text[start_pos + 1] = "_")) =>
        LET run == RunFrom(text, start_pos) IN
        /\ tok.lexeme = run
        /\ \A p \in KindOfWord : run = p[1] => tok.type = p[2]
        /\ (\A p \in KindOfWord : run # p[1]) => tok.type = "IDENT"

C8_Witness ==
    /\ lpc = "ret" /\ tok.type = "DEFN"
    /\ start_pos > 0 /\ pos < Len(text)

C8_WitnessExtended ==
    /\ lpc = "ret" /\ tok.type = "IDENT"
    /\ Len(tok.lexeme) = 5 /\ SubSeq(tok.lexeme, 1, 4) = W_defn

\* A loop of the parser is back at its head after one iteration.
IterationDone(f) ==
    \/ f.fn = "parse" /\ f.pc = 1
    \/ f.fn = "do" /\ f.pc = 3
    \/ f.fn = "app" /\ f.pc = 2
    \/ f.fn = "let" /\ f.pc = 4
    \/ f.fn = "defn" /\ f.pc = 3 /\ f.aux # <<>>

\* C9: tokenize() and parse() end in a value or an error on every text; every
\* iteration of a lexer loop moves the cursor forward, and every completed
\* iteration of a parser loop has moved the lookahead to a later token.
C9_Termination ==
    /\ <>Terminal
    /\ [][((lpc \in {"comment", "number", "string", "ident"} /\ lpc' = lpc)
            \/ (lpc = "skip" /\ lpc' \in {"skip", "comment"})) => pos' > pos]_vars
    /\ [](ParserReady /\ stack # <<>> /\ IterationDone(Top) => start_pos > Top.mark)

C9_Witness ==
    /\ driver = "parse" /\ outcome = "returned"
    /\ HasKind(tree[1], "LetBinding") /\ HasKind(tree[1], "IntLiteral")
    /\ Len(text) > 12 /\ pos = Len(text)

\* The first pair of C10: a syntax error reports the lookahead, and the lexer
\* stands right after that token.
ErrorOnLookahead ==
    outcome = "ParserError" =>
        /\ error.token = lookahead
        /\ pos = start_pos + Extent(lookahead)
        /\ LexemeAt(lookahead, start_pos)

\* C10: a syntax error reports the lookahead with nothing scanned beyond it,
\* so a grammar violation followed by a lexical fault raises the syntax error,
\* and a lexical fault (an unexpected character, NUL included, or an
\* unterminated string) before any grammar violation raises the lexical error.
C10_FirstErrorWins ==
    /\ ErrorOnLookahead
    /\ (driver = "parse" /\ Terminal /\ text \in ViolationThenFault) =>
          outcome = "ParserError"
    /\ (driver = "parse" /\ Terminal
          /\ text \in FaultThenViolation \cup NulThenViolation) =>
          outcome = "LexerError" /\ tree = <<>>

\* The same without the texts whose first fault is the character NUL: holds.
FirstErrorWinsButNul ==
    /\ ErrorOnLookahead
    /\ (driver = "parse" /\ Terminal /\ text \in ViolationThenFault) =>
          outcome = "ParserError"
    /\ (driver = "parse" /\ Terminal /\ text \in FaultThenViolation) =>
          outcome = "LexerError" /\ tree = <<>>

====
